---- MODULE Spec2Model ----
(***************************************************************************)
(* A model of the streaming chat orchestration of RAG-Golf-Agent:          *)
(*   main.py          the three endpoints and chat_stream.event_generator  *)
(*   chat_history.py  ChatHistoryManager over the Supabase tables          *)
(*                    chat_by_user and history_by_chat                     *)
(*   agent_function.py  GolfRAGAgentFunction.chat_streaming                *)
(*                                                                         *)
(* Text is a sequence of characters.  An identifier string is a record     *)
(* [form, val]: the canonical text of UUID val, another accepted spelling  *)
(* of it (upper case), a malformed text, the empty text, or None.          *)
(* Store timestamps are datetimes, counted in microseconds; the request    *)
(* handler's timestamps are integers in milliseconds.                      *)
(*                                                                         *)
(* asyncio runs one task at a time and switches tasks only at an await or  *)
(* at a yield of the event generator: each action below is the code one    *)
(* task runs between two such points.  The Supabase client is synchronous, *)
(* so get_or_create_chat, get_chat_history and save_conversation run       *)
(* inside the step that calls them.                                        *)
(***************************************************************************)
EXTENDS Integers, Sequences, FiniteSets, TLC

\* ------------------------------------------------------------------ bounds
MaxFragments == 2    \* fragments one call of chat_streaming yields, the apology included
MaxClock == 1        \* the clock is read in 0..MaxClock milliseconds
MaxLimit == 3        \* get_chat_history is called on its own with limits 1..MaxLimit
MaxRows == 3         \* rows of the history_by_chat table it is then called on
MaxPad == 2          \* blanks before and after the word of a first message
MaxHoles == 2        \* fields of a per-hole column of a scorecard or a tee

\* ------------------------------------------------------- program constants
CHAT_HISTORY_LIMIT == 14
TitleMax == 100
UsPerMs == 1000

\* the request tasks: two requests run concurrently
Tasks == {1, 2}

\* --------------------------------------------------------------- text
IsSpace(c) == c = " "

RECURSIVE LStrip(_)
LStrip(s) == IF s = <<>> THEN <<>>
             ELSE IF IsSpace(Head(s)) THEN LStrip(Tail(s)) ELSE s

RECURSIVE RStrip(_)
RStrip(s) == IF s = <<>> THEN <<>>
             ELSE IF IsSpace(s[Len(s)]) THEN RStrip(SubSeq(s, 1, Len(s) - 1)) ELSE s

\* str.strip()
Strip(s) == RStrip(LStrip(s))

\* "".join(parts)
RECURSIVE Join(_)
Join(parts) == IF parts = <<>> THEN <<>> ELSE Head(parts) \o Join(Tail(parts))

\* s[:n]
Take(s, n) == SubSeq(s, 1, IF Len(s) < n THEN Len(s) ELSE n)

Reverse(s) == [i \in 1..Len(s) |-> s[Len(s) + 1 - i]]

\* the text f"I apologize, but I encountered an error: {str(e)}"
ApologyText == <<"I", " ", "a", "p", "o", "l", "o", "g", "i", "z", "e">>

\* -------------------------------------------------------- identifiers
None == [form |-> "None", val |-> ""]
EmptyStr == [form |-> "empty", val |-> ""]
BadStr == [form |-> "bad", val |-> ""]
Canon(u) == [form |-> "canon", val |-> u]
Upper(u) == [form |-> "upper", val |-> u]

Invalid == "invalid"

\* uuid.UUID(s): the UUID value of a well-formed text, else ValueError (Invalid)
UUIDParse(s) == IF s.form \in {"canon", "upper"} THEN s.val ELSE Invalid

\* str(uuid): the canonical lower-case text
UUIDStr(u) == Canon(u)

\* Python truthiness of an Optional[str]
Truthy(s) == s # None /\ s # EmptyStr

\* the UUID values the model starts with
User1 == "u1"
Chat0 == "c0"          \* a chat that exists at start, owned by User1
ChatAbsent == "cx"     \* a well-formed chat id no record has

\* optional text: None or a str
NoText == [none |-> TRUE, text |-> <<>>]
Some(s) == [none |-> FALSE, text |-> s]

\* ------------------------------------------------------------- state
VARIABLES
  agent_ready,     \* app.state.agent is set
  history_ready,   \* app.state.chat_history is set
  now,             \* the clock, in milliseconds
  chats,           \* table chat_by_user
  msgs,            \* table history_by_chat
  pc,              \* where each request task stands
  req,             \* each task's request
  status,          \* the HTTP status each task answered (0: none yet)
  events,          \* the SSE events delivered to each task's caller
  response,        \* the body of a list endpoint's answer
  fault,           \* the exception that left the request task, if any
  loc,             \* event_generator's local variables
  run,             \* each task's call of agent.chat_streaming
  ops,             \* the store calls each task made, in order
  hist,            \* the last call of get_chat_history on its own
  tool             \* the last call of a tool's _execute on its own

vars == <<agent_ready, history_ready, now, chats, msgs, pc, req, status,
          events, response, fault, loc, run, ops, hist, tool>>

\* a variant that draws the same values in every task
Uuid4_Repeating(t, k) == "g" \o ToString(k)

\* uuid4(): a value never drawn before, here the k-th draw of task t
Uuid4(t, k) == "g" \o ToString(t) \o ToString(k)

\* ------------------------------------------------- the Supabase store
\* What one store call does: it answers, it answers with no rows (an insert that
\* is not acknowledged writes nothing), or the client raises APIError.
SelectOutcomes == {"ok", "raise"}
InsertOutcomes == {"ok", "noack", "raise"}

\* one entry of ops: the call and whether the store answered it with rows
\* (a select that finds nothing is answered)
Op(name, res) == [op |-> name, ack |-> res = "ok"]

\* .eq("chat_id", s) on a uuid column: the row's UUID is the UUID s spells
SameUuid(a, b) == UUIDParse(a) # Invalid /\ UUIDParse(a) = UUIDParse(b)

ChatRows(chat_id) == {m \in msgs : SameUuid(m.chat_id, chat_id)}

\* the sequences that list every element of S once
Orderings(S) == {q \in [1..Cardinality(S) -> S] : \A i, j \in 1..Cardinality(S) : q[i] = q[j] => i = j}

\* .order("created", desc=False) / .order("created", desc=True): rows of equal
\* created come in an order the store chooses
SortedAsc(S) == {q \in Orderings(S) : \A i, j \in 1..Len(q) : i < j => q[i].created <= q[j].created}
SortedDesc(S) == {q \in Orderings(S) : \A i, j \in 1..Len(q) : i < j => q[i].created >= q[j].created}

\* the select of get_chat_history: .order("created", desc=True).limit(limit)
SelectRecent(chat_id, limit) == {Take(q, limit) : q \in SortedDesc(ChatRows(chat_id))}

\* ---------------------------------------------------- ChatHistoryManager
\* the title of a new chat
Title(first_message) ==
  IF first_message.none \/ first_message.text = <<>> THEN NoText
  ELSE Some(Strip(Take(first_message.text, TitleMax))
            \o (IF Len(first_message.text) > TitleMax THEN <<".", ".", ".">> ELSE <<>>))

\* the result of a manager call: what it returns or raises, the table after it
\* and the store calls it made
Returned(ret, table, calls) ==
  [ret |-> ret, err |-> "", msg |-> "", cause |-> "", table |-> table, calls |-> calls]
Raised(err, msg, cause, table, calls) ==
  [ret |-> None, err |-> err, msg |-> msg, cause |-> cause, table |-> table, calls |-> calls]

\* the row get_or_create_chat inserts; created is the table's default
NewChatRow(new_chat_id, user_id, first_message) ==
  [chat_id |-> UUIDStr(new_chat_id), user_id |-> UUIDStr(UUIDParse(user_id)),
   title |-> Title(first_message), created |-> now * UsPerMs]

\* the end of get_or_create_chat: a new chat, with the id uuid4() drew; ins is
\* what the store does with the insert
CreateChat(user_id, first_message, new_chat_id, ins) ==
  IF ins = "raise"
  THEN Raised("APIError", "store", "", chats, <<Op("insert_chat", ins)>>)
  ELSE IF ins = "noack"
  THEN Raised("RuntimeError", "Failed to create new chat", "", chats, <<Op("insert_chat", ins)>>)
  ELSE Returned(UUIDStr(new_chat_id), chats \cup {NewChatRow(new_chat_id, user_id, first_message)},
                <<Op("insert_chat", ins)>>)

\* a get_or_create_chat that never looks the chat id up
get_or_create_chat_AlwaysNew(user_id, chat_id, first_message, new_chat_id, sel, ins) ==
  IF UUIDParse(user_id) = Invalid
  THEN Raised("ValueError", "Invalid user_id format", "", chats, <<>>)
  ELSE CreateChat(user_id, first_message, new_chat_id, ins)

\* get_or_create_chat(user_id, chat_id, first_message); new_chat_id is what
\* uuid4() draws, sel what the store does with the select
get_or_create_chat(user_id, chat_id, first_message, new_chat_id, sel, ins) ==
  IF UUIDParse(user_id) = Invalid
  THEN Raised("ValueError", "Invalid user_id format", "", chats, <<>>)
  ELSE IF Truthy(chat_id)
  THEN IF UUIDParse(chat_id) = Invalid
       THEN Raised("ValueError", "Invalid chat_id format", "badly formed UUID", chats, <<>>)
       ELSE IF sel = "raise"
       THEN Raised("APIError", "store", "", chats, <<Op("select_chat", sel)>>)
       ELSE IF \E c \in chats : SameUuid(c.chat_id, chat_id)
       THEN Returned(chat_id, chats, <<Op("select_chat", sel)>>)
       ELSE Raised("ValueError", "Invalid chat_id format", "Chat not found", chats,
                   <<Op("select_chat", sel)>>)
  ELSE CreateChat(user_id, first_message, new_chat_id, ins)

\* the role a stored role string maps to; a null role has no lower()
NullRole == "null"
Lower(r) == CASE r = "User" -> "user" [] r = "ASSISTANT" -> "assistant" [] OTHER -> r
RoleOf(role_str) == IF Lower(role_str) \in {"user", "assistant", "system"} THEN Lower(role_str) ELSE "user"
ChatMessage(row) == [role |-> RoleOf(row.role), content |-> row.content]

\* a variant that returns the messages in the order of the select
get_chat_history_Unreversed(chat_id, limit, rows) ==
  IF UUIDParse(chat_id) = Invalid
  THEN [err |-> "ValueError", messages |-> <<>>]
  ELSE [err |-> "", messages |-> [i \in 1..Len(rows) |-> ChatMessage(rows[i])]]

\* get_chat_history(chat_id, limit); rows is what the select returned (newest
\* first). ValueError for a malformed chat id, AttributeError when a row's role
\* is null, else the messages of the rows, reversed
get_chat_history(chat_id, limit, rows) ==
  IF UUIDParse(chat_id) = Invalid
  THEN [err |-> "ValueError", messages |-> <<>>]
  ELSE IF \E i \in 1..Len(rows) : rows[i].role = NullRole
  THEN [err |-> "AttributeError", messages |-> <<>>]
  ELSE [err |-> "", messages |-> Reverse([i \in 1..Len(rows) |-> ChatMessage(rows[i])])]

\* datetime.fromtimestamp(ms / 1000, tz=utc): a datetime, in microseconds
FromTimestampMs(ms) == ms * UsPerMs

MessageRow(chat_id, history_id, role, content, created_ms) ==
  [chat_id |-> UUIDStr(UUIDParse(chat_id)), history_id |-> UUIDStr(UUIDParse(history_id)),
   role |-> role, content |-> content, created |-> FromTimestampMs(created_ms)]

\* a variant that goes on to the assistant insert when the user insert was not
\* acknowledged
save_conversation_NoCheck(chat_id, user_message, assistant_message, user_message_id, assistant_message_id, created_user, created_assistant, insU, insA) ==
  LET userRow == MessageRow(chat_id, user_message_id, "user", user_message, created_user)
      asstRow == MessageRow(chat_id, assistant_message_id, "assistant", assistant_message,
                            created_assistant)
      calls == <<Op("insert_user", insU), Op("insert_assistant", insA)>>
      afterUser == IF insU = "ok" THEN msgs \cup {userRow} ELSE msgs
  IN IF insU = "raise"
     THEN Raised("APIError", "store", "", msgs, <<Op("insert_user", insU)>>)
     ELSE IF insA = "raise" THEN Raised("APIError", "store", "", afterUser, calls)
     ELSE IF insA = "noack"
     THEN Raised("RuntimeError", "Failed to save assistant message", "", afterUser, calls)
     ELSE IF insU = "noack"
     THEN Raised("RuntimeError", "Failed to save user message", "", afterUser \cup {asstRow}, calls)
     ELSE Returned(None, afterUser \cup {asstRow}, calls)

\* a variant that takes the user row back when the assistant insert fails
save_conversation_Rollback(chat_id, user_message, assistant_message, user_message_id, assistant_message_id, created_user, created_assistant, insU, insA) ==
  LET userRow == MessageRow(chat_id, user_message_id, "user", user_message, created_user)
      asstRow == MessageRow(chat_id, assistant_message_id, "assistant", assistant_message,
                            created_assistant)
      calls == <<Op("insert_user", insU), Op("insert_assistant", insA)>>
  IN IF insU = "raise"
     THEN Raised("APIError", "store", "", msgs, <<Op("insert_user", insU)>>)
     ELSE IF insU = "noack"
     THEN Raised("RuntimeError", "Failed to save user message", "", msgs,
                 <<Op("insert_user", insU)>>)
     ELSE IF insA = "raise" THEN Raised("APIError", "store", "", msgs, calls)
     ELSE IF insA = "noack"
     THEN Raised("RuntimeError", "Failed to save assistant message", "", msgs, calls)
     ELSE Returned(None, msgs \cup {userRow, asstRow}, calls)

\* a variant that inserts the assistant row first
save_conversation_AssistantFirst(chat_id, user_message, assistant_message, user_message_id, assistant_message_id, created_user, created_assistant, insU, insA) ==
  LET userRow == MessageRow(chat_id, user_message_id, "user", user_message, created_user)
      asstRow == MessageRow(chat_id, assistant_message_id, "assistant", assistant_message,
                            created_assistant)
      calls == <<Op("insert_assistant", insA), Op("insert_user", insU)>>
  IN IF insA = "raise"
     THEN Raised("APIError", "store", "", msgs, <<Op("insert_assistant", insA)>>)
     ELSE IF insA = "noack"
     THEN Raised("RuntimeError", "Failed to save assistant message", "", msgs,
                 <<Op("insert_assistant", insA)>>)
     ELSE IF insU = "raise" THEN Raised("APIError", "store", "", msgs \cup {asstRow}, calls)
     ELSE IF insU = "noack"
     THEN Raised("RuntimeError", "Failed to save user message", "", msgs \cup {asstRow}, calls)
     ELSE Returned(None, msgs \cup {userRow, asstRow}, calls)

\* save_conversation: the user row, then the assistant row; insU and insA are
\* what the store does with the two inserts
save_conversation(chat_id, user_message, assistant_message, user_message_id, assistant_message_id, created_user, created_assistant, insU, insA) ==
  LET userRow == MessageRow(chat_id, user_message_id, "user", user_message, created_user)
      asstRow == MessageRow(chat_id, assistant_message_id, "assistant", assistant_message,
                            created_assistant)
  IN IF Invalid \in {UUIDParse(chat_id), UUIDParse(user_message_id), UUIDParse(assistant_message_id)}
     THEN Raised("ValueError", "Invalid UUID format", "", msgs, <<>>)
     ELSE IF insU = "raise"
     THEN Raised("APIError", "store", "", msgs, <<Op("insert_user", insU)>>)
     ELSE IF insU = "noack"
     THEN Raised("RuntimeError", "Failed to save user message", "", msgs,
                 <<Op("insert_user", insU)>>)
     ELSE IF insA = "raise"
     THEN Raised("APIError", "store", "", msgs \cup {userRow},
                 <<Op("insert_user", insU), Op("insert_assistant", insA)>>)
     ELSE IF insA = "noack"
     THEN Raised("RuntimeError", "Failed to save assistant message", "", msgs \cup {userRow},
                 <<Op("insert_user", insU), Op("insert_assistant", insA)>>)
     ELSE Returned(None, msgs \cup {userRow, asstRow},
                   <<Op("insert_user", insU), Op("insert_assistant", insA)>>)

\* ------------------------------------------------------- the requests
Messages == {<<"q">>}
UserIds == {Canon(User1), BadStr}
\* the chat ids a turn is asked with: none, the empty text, a malformed text, a
\* spelling of the existing chat's id that is not the canonical one, an absent id
ChatIds == {None, EmptyStr, BadStr, Upper(Chat0), Canon(ChatAbsent)}
\* the chat ids the messages of a chat are asked with
ListChatIds == {EmptyStr, BadStr, Canon(Chat0), Upper(Chat0), Canon(ChatAbsent)}

\* ChatRequest, ChatListRequest, ChatMessagesRequest
Request(endpoint, message, user_id, chat_id) ==
  [endpoint |-> endpoint, message |-> message, user_id |-> user_id, chat_id |-> chat_id]
NoRequest == Request("", <<>>, None, None)

\* the deltas of the events the agent's run streams: text, blanks, or an event
\* with no delta or an empty one
Deltas == {<<"a">>, <<" ">>, <<>>}

\* the SSE events
NoMeta == [chat_id |-> None, history_id |-> None, created |-> 0]
MessageEvent(chunk) == [event |-> "message", data |-> chunk, meta |-> NoMeta, error |-> ""]
MetadataEvent(chat_id, history_id, created) ==
  [event |-> "metadata", data |-> <<>>,
   meta |-> [chat_id |-> chat_id, history_id |-> history_id, created |-> created], error |-> ""]
ErrorEvent(text) == [event |-> "error", data |-> <<>>, meta |-> NoMeta, error |-> text]

NoLocals ==
  [chat_id |-> None, chat_history |-> <<>>, user_message_id |-> None,
   assistant_message_id |-> None, created_user |-> 0, created_assistant |-> 0,
   assistant_response_parts |-> <<>>]
NoRun ==
  [invoked |-> FALSE, message |-> <<>>, chat_history |-> <<>>, emitted |-> <<>>,
   raised |-> FALSE, ended |-> FALSE]
NoHist == [called |-> FALSE, chat_id |-> None, limit |-> 0, err |-> "", messages |-> <<>>]
NoTool == [name |-> "", called |-> FALSE]

\* the chat the store holds at the start
InitChats == {[chat_id |-> Canon(Chat0), user_id |-> Canon(User1), title |-> NoText, created |-> 0]}

\* startup_event sets app.state.chat_history, then app.state.agent; either may
\* have failed
Init ==
  /\ history_ready \in BOOLEAN
  /\ agent_ready \in BOOLEAN
  /\ agent_ready => history_ready
  /\ now = 0
  /\ chats = InitChats
  /\ msgs = {}
  /\ pc = [t \in Tasks |-> "idle"]
  /\ req = [t \in Tasks |-> NoRequest]
  /\ status = [t \in Tasks |-> 0]
  /\ events = [t \in Tasks |-> <<>>]
  /\ response = [t \in Tasks |-> <<>>]
  /\ fault = [t \in Tasks |-> ""]
  /\ loc = [t \in Tasks |-> NoLocals]
  /\ run = [t \in Tasks |-> NoRun]
  /\ ops = [t \in Tasks |-> <<>>]
  /\ hist = NoHist
  /\ tool = NoTool

\* tasks are alike: task t takes its request after task t - 1 took its own
MayArrive(t) == pc[t] = "idle" /\ (t > 1 => pc[t - 1] # "idle")

\* a variant that does not look at app.state
ChatStream_NoCheck(t, message, user_id, chat_id) ==
  /\ MayArrive(t)
  /\ req' = [req EXCEPT ![t] = Request("/chat/stream", message, user_id, chat_id)]
  /\ status' = [status EXCEPT ![t] = 200] /\ pc' = [pc EXCEPT ![t] = "start"]
  /\ UNCHANGED <<tool, agent_ready, history_ready, now, chats, msgs, events, response,
                 fault, loc, run, ops, hist>>

\* POST /chat/stream: chat_stream up to the return of the EventSourceResponse
ChatStream(t, message, user_id, chat_id) ==
  /\ MayArrive(t)
  /\ req' = [req EXCEPT ![t] = Request("/chat/stream", message, user_id, chat_id)]
  /\ IF ~agent_ready \/ ~history_ready
     THEN status' = [status EXCEPT ![t] = 503] /\ pc' = [pc EXCEPT ![t] = "done"]
     ELSE status' = [status EXCEPT ![t] = 200] /\ pc' = [pc EXCEPT ![t] = "start"]
  /\ UNCHANGED <<tool, agent_ready, history_ready, now, chats, msgs, events, response,
                 fault, loc, run, ops, hist>>

\* ------------------------------------------------ chat_stream.event_generator
\* first_message=request.message if request.chat_id is None else None
FirstMessage(r) == IF r.chat_id = None THEN Some(r.message) ELSE NoText

\* created_user = int(datetime.utcnow().timestamp() * 1000)
CreatedUser == now
\* a variant that gives both messages the same timestamp
CreatedAssistant_Same(created_user) == created_user
\* created_assistant = created_user + 1
CreatedAssistant(created_user) == created_user + 1

\* a variant that puts the chunk in front
AppendPart_Prepend(parts, chunk) == <<chunk>> \o parts

\* assistant_response_parts.append(chunk)
AppendPart(parts, chunk) == Append(parts, chunk)

\* a variant that tests the text without stripping it
ShouldSave_NoStrip(assistant_response) == assistant_response # <<>>

\* if assistant_response.strip():
ShouldSave(assistant_response) == Strip(assistant_response) # <<>>

\* metadata_payload
MetadataPayload(l) == MetadataEvent(l.chat_id, l.assistant_message_id, l.created_assistant)

\* the events after an exception left get_or_create_chat or get_chat_history:
\* str(e) for a ValueError, "Internal error: ..." for any other
OuterError(err, msg) == ErrorEvent(IF err = "ValueError" THEN msg ELSE "Internal error")

\* the generator's first run: from its start to the first await inside
\* agent.chat_streaming, or to its end when resolving the chat or loading the
\* history raises
GenStart(t) ==
  /\ pc[t] = "start"
  /\ \E sel \in SelectOutcomes, ins \in InsertOutcomes, selH \in SelectOutcomes :
       LET r == get_or_create_chat(req[t].user_id, req[t].chat_id, FirstMessage(req[t]),
                                     Uuid4(t, 0), sel, ins)
       IN /\ chats' = r.table
          /\ IF r.err # ""
             THEN /\ events' = [events EXCEPT ![t] = Append(@, OuterError(r.err, r.msg))]
                  /\ pc' = [pc EXCEPT ![t] = "done"]
                  /\ ops' = [ops EXCEPT ![t] = @ \o r.calls]
                  /\ UNCHANGED <<loc, run>>
             ELSE \E rows \in SelectRecent(UUIDStr(UUIDParse(r.ret)), CHAT_HISTORY_LIMIT) :
                  LET h == get_chat_history(r.ret, CHAT_HISTORY_LIMIT, rows)
                      calls == r.calls \o <<Op("select_history", selH)>>
                  IN /\ ops' = [ops EXCEPT ![t] = @ \o calls]
                     /\ IF selH = "raise" \/ h.err # ""
                        THEN /\ events' = [events EXCEPT ![t] = Append(@, OuterError("Exception", ""))]
                             /\ pc' = [pc EXCEPT ![t] = "done"]
                             /\ loc' = [loc EXCEPT ![t].chat_id = r.ret]
                             /\ UNCHANGED run
                        ELSE /\ loc' = [loc EXCEPT ![t] =
                                  [chat_id |-> r.ret,
                                   chat_history |-> h.messages,
                                   user_message_id |-> UUIDStr(Uuid4(t, 1)),
                                   assistant_message_id |-> UUIDStr(Uuid4(t, 2)),
                                   created_user |-> CreatedUser,
                                   created_assistant |-> CreatedAssistant(CreatedUser),
                                   assistant_response_parts |-> <<>>]]
                             /\ run' = [run EXCEPT ![t] =
                                  [NoRun EXCEPT !.invoked = TRUE, !.message = req[t].message,
                                                !.chat_history = h.messages]]
                             /\ events' = events
                             /\ pc' = [pc EXCEPT ![t] = "await_event"]
  /\ UNCHANGED <<tool, agent_ready, history_ready, now, msgs, req, status, response, fault, hist>>

\* a variant in which the requests keep their parts in one list
Deliver_Shared(t, chunk, raised) ==
  /\ run' = [run EXCEPT ![t].emitted = Append(@, chunk), ![t].raised = raised]
  /\ loc' = [u \in Tasks |->
               IF u = t \/ run[u].invoked
               THEN [loc[u] EXCEPT !.assistant_response_parts = AppendPart(@, chunk)]
               ELSE loc[u]]
  /\ events' = [events EXCEPT ![t] = Append(@, MessageEvent(chunk))]
  /\ pc' = [pc EXCEPT ![t] = "at_yield"]

\* chat_streaming yields a fragment and event_generator, in the same run, keeps
\* it and yields the message event
Deliver(t, chunk, raised) ==
  /\ run' = [run EXCEPT ![t].emitted = Append(@, chunk), ![t].raised = raised]
  /\ loc' = [loc EXCEPT ![t].assistant_response_parts = AppendPart(@, chunk)]
  /\ events' = [events EXCEPT ![t] = Append(@, MessageEvent(chunk))]
  /\ pc' = [pc EXCEPT ![t] = "at_yield"]

\* the agent's run streams one event: `if hasattr(event, "delta") and event.delta`;
\* an event with no delta, or an empty one, is passed over
AgentEvent(t, delta) ==
  /\ pc[t] = "await_event"
  /\ Len(run[t].emitted) < MaxFragments
  /\ IF delta # <<>>
     THEN Deliver(t, delta, FALSE)
     ELSE UNCHANGED <<run, loc, events, pc>>
  /\ UNCHANGED <<tool, agent_ready, history_ready, now, chats, msgs, req, status,
                 response, fault, ops, hist>>

\* the caller took the message event and the generator runs on to the next await
Resume(t) ==
  /\ pc[t] = "at_yield"
  /\ ~run[t].raised
  /\ pc' = [pc EXCEPT ![t] = "await_event"]
  /\ UNCHANGED <<tool, agent_ready, history_ready, now, chats, msgs, req, status,
                 events, response, fault, loc, run, ops, hist, tool>>

\* the agent's run raises an exception (in the stream, or from `await handler`
\* in the finally): `except Exception` in chat_streaming yields the apology as
\* one more fragment
AgentRaise(t) ==
  /\ pc[t] = "await_event"
  /\ Len(run[t].emitted) < MaxFragments
  /\ Deliver(t, ApologyText, TRUE)
  /\ UNCHANGED <<tool, agent_ready, history_ready, now, chats, msgs, req, status,
                 response, fault, ops, hist>>

\* a variant that yields the metadata event whether or not saving raised
AfterSave_MetadataAnyway(err, l) == MetadataPayload(l)

\* the event yielded after save_conversation: the metadata event when it
\* returned, the error event of `except Exception as save_error` when it raised
AfterSave(err, l) ==
  IF err = "" THEN MetadataPayload(l) ELSE ErrorEvent("Failed to save conversation")

\* after the stream: join the parts and, when the text is not blank, save both
\* messages and yield the metadata event, or the error event when saving raises
PostStream(t) ==
  LET l == loc[t]
      assistant_response == Join(l.assistant_response_parts)
  IN /\ run' = [run EXCEPT ![t].ended = TRUE]
     /\ pc' = [pc EXCEPT ![t] = "done"]
     /\ IF ShouldSave(assistant_response)
        THEN \E insU \in InsertOutcomes, insA \in InsertOutcomes :
             LET r == save_conversation(l.chat_id, req[t].message, assistant_response,
                                        l.user_message_id, l.assistant_message_id,
                                        l.created_user, l.created_assistant, insU, insA)
             IN /\ msgs' = r.table
                /\ ops' = [ops EXCEPT ![t] = @ \o r.calls]
                /\ events' = [events EXCEPT ![t] = Append(@, AfterSave(r.err, l))]
        ELSE UNCHANGED <<msgs, ops, events>>

\* the agent's run ends: chat_streaming returns and the loop of event_generator
\* is over
AgentEnd(t) ==
  /\ pc[t] = "await_event"
  /\ PostStream(t)
  /\ UNCHANGED <<tool, agent_ready, history_ready, now, chats, req, status,
                 response, fault, loc, hist>>

\* the caller took the apology: chat_streaming returns after its except block
ResumeAfterApology(t) ==
  /\ pc[t] = "at_yield"
  /\ run[t].raised
  /\ PostStream(t)
  /\ UNCHANGED <<tool, agent_ready, history_ready, now, chats, req, status,
                 response, fault, loc, hist>>

\* a variant whose `except Exception` catches the cancellation
OnCancelled_AsError == [pc |-> "done", fault |-> "", yielded |-> <<ErrorEvent("cancelled")>>]

\* what the handlers of event_generator make of a CancelledError:
\* `except asyncio.CancelledError: raise`, and `except Exception` does not catch
\* it: it leaves the generator and nothing is yielded
OnCancelled == [pc |-> "cancelled", fault |-> "CancelledError", yielded |-> <<>>]

\* the caller disconnects while the stream is open: CancelledError is raised at
\* the await inside chat_streaming (its finally closes the stream, its
\* `except Exception` does not catch it), or the generator is closed at its yield
Cancel(t) ==
  /\ pc[t] \in {"await_event", "at_yield"}
  /\ pc' = [pc EXCEPT ![t] = OnCancelled.pc]
  /\ fault' = [fault EXCEPT ![t] = OnCancelled.fault]
  /\ events' = [events EXCEPT ![t] = @ \o OnCancelled.yielded]
  /\ UNCHANGED <<tool, agent_ready, history_ready, now, chats, msgs, req, status,
                 response, loc, run, ops, hist>>

\* time passes. Only differences of clock readings matter, so the clock stands
\* at 0 until a first request has run and stops once no request is left to read it
Tick ==
  /\ now < MaxClock
  /\ \E t \in Tasks : pc[t] \notin {"idle", "start"}
  /\ \E t \in Tasks : pc[t] \in {"idle", "start"}
  /\ now' = now + 1
  /\ UNCHANGED <<tool, agent_ready, history_ready, chats, msgs, pc, req, status,
                 events, response, fault, loc, run, ops, hist, tool>>

\* -------------------------------------------------- the list endpoints
UntitledChat == <<"U", "n", "t", "i", "t", "l", "e", "d">>

\* ChatListResponse of one row: title=chat.get("title") or "Untitled Chat"
ChatListItem(chat) ==
  [user_id |-> UUIDParse(chat.user_id), chat_id |-> UUIDParse(chat.chat_id),
   created |-> chat.created,
   title |-> IF chat.title.none \/ chat.title.text = <<>> THEN UntitledChat ELSE chat.title.text]

\* ChatMessageResponse of one row
ChatMessageItem(m) ==
  [chat_id |-> UUIDParse(m.chat_id), history_id |-> UUIDParse(m.history_id),
   role |-> m.role, content |-> m.content, created |-> m.created]

\* the answer of a list endpoint
Answer(t, code, body, calls) ==
  /\ status' = [status EXCEPT ![t] = code]
  /\ response' = [response EXCEPT ![t] = body]
  /\ ops' = [ops EXCEPT ![t] = @ \o calls]
  /\ pc' = [pc EXCEPT ![t] = "done"]

\* POST /chat/all: get_all_chats over ChatHistoryManager.get_all_chats
GetAllChats(t, user_id) ==
  /\ MayArrive(t)
  /\ req' = [req EXCEPT ![t] = Request("/chat/all", <<>>, user_id, None)]
  /\ IF ~history_ready THEN Answer(t, 503, <<>>, <<>>)
     ELSE IF UUIDParse(user_id) = Invalid THEN Answer(t, 400, <<>>, <<>>)
     ELSE \E sel \in SelectOutcomes :
          IF sel = "raise" THEN Answer(t, 500, <<>>, <<Op("select_chats", sel)>>)
          ELSE \E rows \in SortedDesc({c \in chats : SameUuid(c.user_id, UUIDStr(UUIDParse(user_id)))}) :
               Answer(t, 200, [i \in 1..Len(rows) |-> ChatListItem(rows[i])],
                      <<Op("select_chats", sel)>>)
  /\ UNCHANGED <<tool, agent_ready, history_ready, now, chats, msgs, events, fault,
                 loc, run, hist>>

\* POST /chat/messages: get_chat_messages over ChatHistoryManager.get_all_messages
GetChatMessages(t, chat_id) ==
  /\ MayArrive(t)
  /\ req' = [req EXCEPT ![t] = Request("/chat/messages", <<>>, None, chat_id)]
  /\ IF ~history_ready THEN Answer(t, 503, <<>>, <<>>)
     ELSE IF UUIDParse(chat_id) = Invalid THEN Answer(t, 400, <<>>, <<>>)
     ELSE \E sel \in SelectOutcomes :
          IF sel = "raise" THEN Answer(t, 500, <<>>, <<Op("select_messages", sel)>>)
          ELSE \E rows \in SortedAsc(ChatRows(UUIDStr(UUIDParse(chat_id)))) :
               Answer(t, 200, [i \in 1..Len(rows) |-> ChatMessageItem(rows[i])],
                      <<Op("select_messages", sel)>>)
  /\ UNCHANGED <<tool, agent_ready, history_ready, now, chats, msgs, events, fault,
                 loc, run, hist>>

\* ------------------------------------------------------- specification
Next ==
  \/ \E t \in Tasks, m \in Messages, u \in UserIds, c \in ChatIds : ChatStream(t, m, u, c)
  \/ \E t \in Tasks : GenStart(t)
  \/ \E t \in Tasks, d \in Deltas : AgentEvent(t, d)
  \/ \E t \in Tasks : Resume(t)
  \/ \E t \in Tasks : AgentRaise(t)
  \/ \E t \in Tasks : AgentEnd(t)
  \/ \E t \in Tasks : ResumeAfterApology(t)
  \/ \E t \in Tasks : Cancel(t)
  \/ \E t \in Tasks, u \in UserIds \cup {EmptyStr} : GetAllChats(t, u)
  \/ \E t \in Tasks, c \in ListChatIds : GetChatMessages(t, c)
  \/ Tick

Spec == Init /\ [][Next]_vars

\* ---------------------------------------- get_chat_history on its own
\* A second chat and the tables get_chat_history is called on: up to MaxRows
\* rows, written as turns write them (user and assistant in turn), each in one
\* of the two chats and created at any millisecond the clock may show
Chat1 == "c1"
HistoryChats == InitChats \cup {[chat_id |-> Canon(Chat1), user_id |-> Canon(User1), title |-> NoText, created |-> 0]}
StoredRow(i, c, ms) ==
  MessageRow(Canon(c), Canon("h" \o ToString(i)), IF i % 2 = 1 THEN "user" ELSE "assistant",
             <<"m" \o ToString(i)>>, ms)
HistoryTables ==
  {{StoredRow(i, f[i][1], f[i][2]) : i \in DOMAIN f} :
     f \in UNION {[1..n -> {Chat0, Chat1} \X (0..MaxClock + 1)] : n \in 0..MaxRows}}

InitHistory ==
  /\ history_ready = TRUE
  /\ agent_ready = TRUE
  /\ now = 0
  /\ chats = HistoryChats
  /\ msgs \in HistoryTables
  /\ pc = [t \in Tasks |-> "idle"]
  /\ req = [t \in Tasks |-> NoRequest]
  /\ status = [t \in Tasks |-> 0]
  /\ events = [t \in Tasks |-> <<>>]
  /\ response = [t \in Tasks |-> <<>>]
  /\ fault = [t \in Tasks |-> ""]
  /\ loc = [t \in Tasks |-> NoLocals]
  /\ run = [t \in Tasks |-> NoRun]
  /\ ops = [t \in Tasks |-> <<>>]
  /\ hist = NoHist
  /\ tool = NoTool

\* one call get_chat_history(chat_id, limit)
LoadHistory(chat_id, limit) ==
  /\ ~hist.called
  /\ \A t \in Tasks : pc[t] = "idle"
  /\ \E rows \in SelectRecent(UUIDStr(UUIDParse(chat_id)), limit) :
       LET h == get_chat_history(chat_id, limit, rows)
       IN hist' = [called |-> TRUE, chat_id |-> chat_id, limit |-> limit,
                   err |-> h.err, messages |-> h.messages]
  /\ UNCHANGED <<tool, agent_ready, history_ready, now, chats, msgs, pc, req, status, events,
                 response, fault, loc, run, ops>>

\* a turn on the first task, up to the call of the agent
NextHistory ==
  \/ \E c \in {Canon(Chat0), Upper(Chat0), Canon(Chat1), BadStr}, limit \in 1..MaxLimit : LoadHistory(c, limit)
  \/ \E m \in Messages, c \in {None, Upper(Chat0)} : ~hist.called /\ ChatStream(1, m, Canon(User1), c)
  \/ GenStart(1)

SpecHistory == InitHistory /\ [][NextHistory]_vars

\* --------------------------------------------- the roles of stored rows
\* The role column of a stored row: a role in any case, another text, the empty
\* text, or null.  The tables hold up to MaxRows rows of the chat, created one
\* millisecond apart.
StoredRoles == {"user", "User", "assistant", "ASSISTANT", "system", "tool", "", NullRole}
RoleRow(i, role) == MessageRow(Canon(Chat0), Canon("h" \o ToString(i)), role, <<"m" \o ToString(i)>>, i)
RoleTables ==
  {{RoleRow(i, f[i]) : i \in DOMAIN f} : f \in UNION {[1..n -> StoredRoles] : n \in 0..MaxRows}}

InitRoles ==
  /\ history_ready = TRUE
  /\ agent_ready = TRUE
  /\ now = 0
  /\ chats = InitChats
  /\ msgs \in RoleTables
  /\ pc = [t \in Tasks |-> "idle"]
  /\ req = [t \in Tasks |-> NoRequest]
  /\ status = [t \in Tasks |-> 0]
  /\ events = [t \in Tasks |-> <<>>]
  /\ response = [t \in Tasks |-> <<>>]
  /\ fault = [t \in Tasks |-> ""]
  /\ loc = [t \in Tasks |-> NoLocals]
  /\ run = [t \in Tasks |-> NoRun]
  /\ ops = [t \in Tasks |-> <<>>]
  /\ hist = NoHist
  /\ tool = NoTool

\* the history of the chat is loaded, on its own or by a turn on the chat
NextRoles ==
  \/ \E limit \in 1..MaxLimit : LoadHistory(Canon(Chat0), limit)
  \/ \E m \in Messages : ~hist.called /\ ChatStream(1, m, Canon(User1), Upper(Chat0))
  \/ GenStart(1)

SpecRoles == InitRoles /\ [][NextRoles]_vars

\* ------------------------------------------- the title of a new chat
\* The first messages a chat is created from: up to MaxPad blanks, a word, up
\* to MaxPad blanks, of lengths about 0 and about TitleMax
Spaces(n) == [i \in 1..n |-> " "]
Word(n) == [i \in 1..n |-> "x"]
WordLengths == {0, 1} \cup ((TitleMax - MaxPad - 1)..(TitleMax + 1))
TitleMessages ==
  {Spaces(l) \o Word(n) \o Spaces(r) : l \in 0..MaxPad, r \in 0..MaxPad, n \in WordLengths}

\* one turn that names no chat, up to the call of the agent
NextTitle ==
  \/ \E m \in TitleMessages : ChatStream(1, m, Canon(User1), None)
  \/ GenStart(1)

SpecTitle == Init /\ [][NextTitle]_vars

\* ------------------------------------------------------------ the tools
\* The texts of the tools are strings.  A comma-separated column value is the
\* sequence of its fields (the empty text has one empty field); a null column
\* has no field.  A field is a number, empty, or no number at all.
NullColumn == <<>>
CsvFields == {"4", "0", "", "x"}
CsvValues == UNION {[1..n -> CsvFields] : n \in 0..MaxHoles}

\* `not value` of an Optional[str]
Falsy(value) == value = NullColumn \/ value = <<"">>

\* int(x): the number, or ValueError
IsInt(x) == x \in {"4", "0"}
IntOf(x) == IF x = "4" THEN 4 ELSE 0

\* [int(x) for x in value.split(",") if x.strip()], or the ValueError of int()
ParseInts(value) ==
  LET kept == SelectSeq(value, LAMBDA x : x # "")
  IN IF \E i \in 1..Len(kept) : ~IsInt(kept[i])
     THEN [err |-> "ValueError", nums |-> <<>>]
     ELSE [err |-> "", nums |-> [i \in 1..Len(kept) |-> IntOf(kept[i])]]

\* _parse_csv_numbers(value)
ParseCsvNumbers(value) == IF Falsy(value) THEN [err |-> "", nums |-> <<>>] ELSE ParseInts(value)

\* str.ljust(width), str.rjust(width), " " * n, "\n".join(lines), sep.join(cells)
RECURSIVE Ljust(_, _)
Ljust(s, width) == IF Len(s) >= width THEN s ELSE Ljust(s \o " ", width)
RECURSIVE Rjust(_, _)
Rjust(s, width) == IF Len(s) >= width THEN s ELSE Rjust(" " \o s, width)
RECURSIVE Blanks(_)
Blanks(n) == IF n = 0 THEN "" ELSE " " \o Blanks(n - 1)
RECURSIVE JoinWith(_, _)
JoinWith(sep, cells) ==
  IF cells = <<>> THEN ""
  ELSE IF Len(cells) = 1 THEN cells[1]
  ELSE cells[1] \o sep \o JoinWith(sep, Tail(cells))

MaxOf(S) == IF S = {} THEN 0 ELSE LET x == CHOOSE y \in S : \A z \in S : z <= y IN x

\* what a call returns or raises
ToolText(text) == [raised |-> "", text |-> text]
ToolRaise(err) == [raised |-> err, text |-> ""]

\* ---- tools/scorecards.py
\* a row of igolf_scorecard_by_course; its par-in, par-out and par-total columns
\* are null
ScorecardRow(men_hcp, men_par, wmn_hcp, wmn_par) ==
  [men_hcp_hole |-> men_hcp, men_par_hole |-> men_par,
   wmn_hcp_hole |-> wmn_hcp, wmn_par_hole |-> wmn_par]

\* len([p for p in values if p > 0])
Positive(values) == Len(SelectSeq(values, LAMBDA p : p > 0))

\* _pad(values): the first num_holes values, filled up with 0, as texts
PadHoles(values, num_holes) ==
  [i \in 1..num_holes |-> ToString(IF i <= Len(values) THEN values[i] ELSE 0)]

\* max(len(v) for v in cells) if cells else 1
ColumnWidth(cells) == IF cells = <<>> THEN 1 ELSE MaxOf({Len(cells[i]) : i \in 1..Len(cells)})

ScorecardHeader ==
  "| Holes | Men Par | Men Hcp | Women Par | Women Hcp |\n|-------|---------|---------|-----------|-----------|"

\* the table of the scorecard, from the parsed columns
ScorecardTable(men_hcp_n, men_par_n, wmn_hcp_n, wmn_par_n, num_holes) ==
  LET men_hcp == PadHoles(men_hcp_n, num_holes)
      men_par == PadHoles(men_par_n, num_holes)
      women_hcp == PadHoles(wmn_hcp_n, num_holes)
      women_par == PadHoles(wmn_par_n, num_holes)
      max_men_par == ColumnWidth(men_par)
      max_men_hcp == ColumnWidth(men_hcp)
      max_wmn_par == ColumnWidth(women_par)
      max_wmn_hcp == ColumnWidth(women_hcp)
      rows_md == [idx \in 1..num_holes |->
                    "| " \o Rjust(ToString(idx), 2) \o " | " \o Ljust(men_par[idx], max_men_par)
                    \o " | " \o Ljust(men_hcp[idx], max_men_hcp)
                    \o " | " \o Ljust(women_par[idx], max_wmn_par)
                    \o " | " \o Ljust(women_hcp[idx], max_wmn_hcp) \o " |"]
      labels == <<"Par In", "Par Out", "Par Total">>
      footer == [k \in 1..3 |->
                   "| **" \o labels[k] \o "** | " \o Ljust("None", max_men_par) \o " | "
                   \o Blanks(max_men_hcp) \o " | " \o Ljust("None", max_wmn_par) \o " | "
                   \o Blanks(max_wmn_hcp) \o " |"]
  IN JoinWith("\n", <<"### Scorecard Details", ScorecardHeader>> \o rows_md \o footer)

\* _generate_markdown_scorecard(rows)
GenerateMarkdownScorecard(rows) ==
  IF rows = <<>> THEN ToolText("No scorecard information was found for that course.")
  ELSE LET row == rows[1]
           men_hcp == ParseCsvNumbers(row.men_hcp_hole)
           men_par == ParseCsvNumbers(row.men_par_hole)
           women_hcp == ParseCsvNumbers(row.wmn_hcp_hole)
           women_par == ParseCsvNumbers(row.wmn_par_hole)
           num_holes == MaxOf({Positive(men_par.nums), Positive(women_par.nums),
                               Positive(men_hcp.nums), Positive(women_hcp.nums)})
       IN IF {men_hcp.err, men_par.err, women_hcp.err, women_par.err} # {""}
          THEN ToolRaise("ValueError")
          ELSE IF num_holes = 0
          THEN ToolText("Scorecard data was found but no hole-by-hole values were populated.")
          ELSE ToolText(ScorecardTable(men_hcp.nums, men_par.nums, women_hcp.nums,
                                       women_par.nums, num_holes))

\* what fetch_rows does: it raises (no session, a failed query) or returns rows
FetchRaised == "DriverException"

ScorecardFailure == "I couldn't retrieve scorecard data right now. Please try again later."

\* a variant without the try and except
ScorecardExecute_NoCatch(fetch) ==
  IF fetch.raised # "" THEN ToolRaise(fetch.raised) ELSE GenerateMarkdownScorecard(fetch.rows)

\* ScorecardTool._execute(course_id); fetch is what fetch_rows does
ScorecardExecute(fetch) ==
  IF fetch.raised # "" THEN ToolText(ScorecardFailure)
  ELSE LET r == GenerateMarkdownScorecard(fetch.rows)
       IN IF r.raised # "" THEN ToolText(ScorecardFailure) ELSE r

\* ---- tools/tee_details.py
\* a row of igolf_tee_detail_by_course; its total, rating and slope columns are
\* null, its teename may be
NullName == "<null>"
TeeNames == {"Blue", "Red", NullName}
TeeRow(teename, ydshole) == [teename |-> teename, ydshole |-> ydshole]

\* tees[name] = {...}: a dict keeps the place of a key it already has
PutTee(tees, name, yardages) ==
  IF \E k \in 1..Len(tees) : tees[k].name = name
  THEN [k \in 1..Len(tees) |->
          IF tees[k].name = name THEN [name |-> name, yardages |-> yardages] ELSE tees[k]]
  ELSE Append(tees, [name |-> name, yardages |-> yardages])

\* the loop over the rows: the tees and num_holes, or the ValueError of int()
RECURSIVE CollectTees(_, _, _)
CollectTees(rows, tees, num_holes) ==
  IF rows = <<>> THEN [err |-> "", tees |-> tees, num_holes |-> num_holes]
  ELSE LET row == Head(rows)
           yardages == ParseInts(row.ydshole)
       IN IF Falsy(row.ydshole) THEN CollectTees(Tail(rows), tees, num_holes)
          ELSE IF yardages.err # "" THEN [err |-> yardages.err, tees |-> <<>>, num_holes |-> 0]
          ELSE IF yardages.nums = <<>> THEN CollectTees(Tail(rows), tees, num_holes)
          ELSE CollectTees(Tail(rows), PutTee(tees, row.teename, yardages.nums),
                           MaxOf({num_holes, Len(yardages.nums)}))

\* the table of the tees; the total cells are empty and the ratings N/A
TeeTable(tees, num_holes) ==
  LET tee_names == [k \in 1..Len(tees) |-> tees[k].name]
      header == <<"| Hole | " \o JoinWith(" | ", tee_names) \o " |",
                  "|------|" \o JoinWith("|", [k \in 1..Len(tees) |-> "------"]) \o "|">>
      cell(k, idx) == IF idx <= Len(tees[k].yardages) THEN ToString(tees[k].yardages[idx]) ELSE ""
      rows_md == [idx \in 1..num_holes |->
                    "| " \o Rjust(ToString(idx), 2) \o " | "
                    \o JoinWith(" | ", [k \in 1..Len(tees) |-> cell(k, idx)]) \o " |"]
      total_row == "| Total | " \o JoinWith(" | ", [k \in 1..Len(tees) |-> ""]) \o " |"
      rating_row == "| Men CR/Slope | " \o JoinWith(" | ", [k \in 1..Len(tees) |-> "N/A/N/A"]) \o " |"
      women_row == "| Women CR/Slope | " \o JoinWith(" | ", [k \in 1..Len(tees) |-> "N/A/N/A"]) \o " |"
  IN JoinWith("\n", <<"### Tee Details">> \o header \o rows_md
                     \o <<total_row, rating_row, women_row>>)

\* _generate_markdown_tees(rows); " | ".join(tee_names) raises TypeError on a
\* name that is None
GenerateMarkdownTees(rows) ==
  IF rows = <<>> THEN ToolText("No tee details were found for that course.")
  ELSE LET c == CollectTees(rows, <<>>, 0)
       IN IF c.err # "" THEN ToolRaise(c.err)
          ELSE IF c.tees = <<>> \/ c.num_holes = 0
          THEN ToolText("Tee details were available but could not be parsed.")
          ELSE IF \E k \in 1..Len(c.tees) : c.tees[k].name = NullName
          THEN ToolRaise("TypeError")
          ELSE ToolText(TeeTable(c.tees, c.num_holes))

TeeFailure == "I couldn't retrieve tee information right now. Please try again later."

\* TeeDetailsTool._execute(course_id)
TeeExecute(fetch) ==
  IF fetch.raised # "" THEN ToolText(TeeFailure)
  ELSE LET r == GenerateMarkdownTees(fetch.rows)
       IN IF r.raised # "" THEN ToolText(TeeFailure) ELSE r

\* ---- tools/golf_courses.py, tools/app_manual.py
\* the metadata of a source node: None, or a dict with all the keys read
NoMetadata == [present |-> FALSE, courseName |-> "", id_course |-> "", city |-> "", state |-> ""]
CourseMetadata == [present |-> TRUE, courseName |-> "Pebble", id_course |-> "7", city |-> "Monterey", state |-> ""]

\* one line of the course matches; latitude and longitude are not set, and the
\* dash of the source is written -
CourseLine(metadata) ==
  LET course_name == IF metadata.present THEN metadata.courseName ELSE "Unknown course"
      course_id == IF metadata.present THEN metadata.id_course ELSE "N/A"
      city == IF metadata.present THEN metadata.city ELSE ""
      state == IF metadata.present THEN metadata.state ELSE ""
  IN "- " \o course_name \o " (id_course: " \o course_id \o ")"
     \o (IF city # "" \/ state # "" THEN " - " \o city \o ", " \o state ELSE "")

\* GolfCoursesTool._execute(query); engine is the query engine and what its
\* aquery does
GolfExecute(engine) ==
  IF ~engine.present THEN ToolText("Golf courses search is currently unavailable.")
  ELSE IF engine.raised # ""
  THEN ToolText("Sorry, I encountered an error while searching golf courses: " \o engine.raised)
  ELSE IF engine.source_nodes # <<>>
  THEN LET nodes == Take(engine.source_nodes, 5)
       IN ToolText(JoinWith("\n", <<engine.summary, "\nTop course matches:">>
                                   \o [i \in 1..Len(nodes) |-> CourseLine(nodes[i])]))
  ELSE ToolText(engine.summary)

\* AppManualTool._execute(query)
ManualExecute(engine) ==
  IF ~engine.present
  THEN ToolText("Application documentation and user manual search is currently unavailable.")
  ELSE IF engine.raised # ""
  THEN ToolText("Sorry, I encountered an error while searching application documentation and user manual: " \o engine.raised)
  ELSE ToolText(engine.summary)

\* ---- the calls of the tools
ToolCall(name, input) == [name |-> name, called |-> FALSE, input |-> input, raised |-> "", text |-> ""]

Fetches(Rows) == {[raised |-> FetchRaised, rows |-> <<>>]} \cup {[raised |-> "", rows |-> r] : r \in Rows}

HcpValues == {NullColumn, <<"4">>, <<"x">>}
ScorecardRows ==
  {<<>>} \cup {<<ScorecardRow(mh, mp, wh, wp)>> :
                 mh \in HcpValues, mp \in CsvValues, wh \in HcpValues, wp \in CsvValues}
TeeRows ==
  UNION {[1..n -> {TeeRow(name, y) : name \in TeeNames, y \in CsvValues}] : n \in 0..2}

Engines ==
  {[present |-> FALSE, raised |-> "", summary |-> "", source_nodes |-> <<>>],
   [present |-> TRUE, raised |-> "timeout", summary |-> "", source_nodes |-> <<>>]}
  \cup {[present |-> TRUE, raised |-> "", summary |-> sm, source_nodes |-> ns] :
          sm \in {"", "Two courses."},
          ns \in UNION {[1..n -> {NoMetadata, CourseMetadata}] : n \in 0..2}}

InitTools ==
  /\ history_ready = TRUE
  /\ agent_ready = TRUE
  /\ now = 0
  /\ chats = InitChats
  /\ msgs = {}
  /\ pc = [t \in Tasks |-> "idle"]
  /\ req = [t \in Tasks |-> NoRequest]
  /\ status = [t \in Tasks |-> 0]
  /\ events = [t \in Tasks |-> <<>>]
  /\ response = [t \in Tasks |-> <<>>]
  /\ fault = [t \in Tasks |-> ""]
  /\ loc = [t \in Tasks |-> NoLocals]
  /\ run = [t \in Tasks |-> NoRun]
  /\ ops = [t \in Tasks |-> <<>>]
  /\ hist = NoHist
  /\ \/ tool \in {ToolCall("search_scorecards", f) : f \in Fetches(ScorecardRows)}
     \/ tool \in {ToolCall("search_tee_details", f) : f \in Fetches(TeeRows)}
     \/ tool \in {ToolCall("search_golf_courses", e) : e \in Engines}
     \/ tool \in {ToolCall("search_app_manual", e) : e \in Engines}

\* the agent calls the tool: the call ends with what _execute returns or raises
Finish(r) ==
  /\ tool' = [tool EXCEPT !.called = TRUE, !.raised = r.raised, !.text = r.text]
  /\ UNCHANGED <<agent_ready, history_ready, now, chats, msgs, pc, req, status, events,
                 response, fault, loc, run, ops, hist>>

CallScorecards == ~tool.called /\ tool.name = "search_scorecards" /\ Finish(ScorecardExecute(tool.input))
CallTeeDetails == ~tool.called /\ tool.name = "search_tee_details" /\ Finish(TeeExecute(tool.input))
CallGolfCourses == ~tool.called /\ tool.name = "search_golf_courses" /\ Finish(GolfExecute(tool.input))
CallAppManual == ~tool.called /\ tool.name = "search_app_manual" /\ Finish(ManualExecute(tool.input))

NextTools == CallScorecards \/ CallTeeDetails \/ CallGolfCourses \/ CallAppManual

SpecTools == InitTools /\ [][NextTools]_vars

\* =================================================================== claims
\* the text of a sequence of fragments, in their order
RECURSIVE Concat(_)
Concat(fragments) == IF fragments = <<>> THEN <<>> ELSE Head(fragments) \o Concat(Tail(fragments))

\* a text that is not empty after trimming: it has a character that is no blank
NonBlank(text) == \E i \in 1..Len(text) : text[i] # " "

\* the agent's stream of task t's turn completed
StreamCompleted(t) == run[t].ended

\* the store calls of task t that are inserts of messages
MessageInserts(t) == {i \in 1..Len(ops[t]) : ops[t][i].op \in {"insert_user", "insert_assistant"}}
Acked(t, name) == \E i \in 1..Len(ops[t]) : ops[t][i].op = name /\ ops[t][i].ack
BothAcked(t) == Acked(t, "insert_user") /\ Acked(t, "insert_assistant")

\* the rows that carry one of the two message ids of task t's turn
TurnRows(t) ==
  {m \in msgs : UUIDParse(m.history_id) \in {UUIDParse(loc[t].user_message_id),
                                            UUIDParse(loc[t].assistant_message_id)}}
RowsOfRole(rows, role) == {m \in rows : m.role = role}

\* the events of one kind among those delivered to task t's caller
EventsOfKind(t, kind) == {i \in 1..Len(events[t]) : events[t][i].event = kind}
LastEvent(t) == events[t][Len(events[t])]

\* the message inserts the store acknowledged, over all tasks
RECURSIVE AckedInserts(_)
AckedInserts(T) ==
  IF T = {} THEN 0
  ELSE LET t == CHOOSE x \in T : TRUE
       IN Cardinality({i \in MessageInserts(t) : ops[t][i].ack}) + AckedInserts(T \ {t})

\* C1: a turn whose stream completed with a text that is not blank, and whose
\* two inserts the store acknowledged, left exactly two new messages, one of the
\* user and one of the assistant, in the chat it resolved; the assistant's
\* created is 1 ms after the user's; the last event is the metadata event, its
\* history_id names the assistant message and its chat_id the chat of the rows.
\* No message exists that no acknowledged insert wrote.
C1_TurnPersisted ==
  /\ Cardinality(msgs) = AckedInserts(Tasks)
  /\ \A t \in Tasks :
       (StreamCompleted(t) /\ NonBlank(Concat(run[t].emitted)) /\ BothAcked(t)) =>
         /\ Cardinality(TurnRows(t)) = 2
         /\ \A m \in TurnRows(t) : UUIDParse(m.chat_id) = UUIDParse(loc[t].chat_id)
         /\ \E u \in RowsOfRole(TurnRows(t), "user"), a \in RowsOfRole(TurnRows(t), "assistant") :
              /\ u.content = req[t].message
              /\ a.created = u.created + 1 * UsPerMs
              /\ events[t] # <<>>
              /\ LastEvent(t).event = "metadata"
              /\ UUIDParse(LastEvent(t).meta.history_id) = UUIDParse(a.history_id)
              /\ UUIDParse(LastEvent(t).meta.chat_id) = UUIDParse(a.chat_id)

C1_Witness ==
  \E t \in Tasks :
    /\ StreamCompleted(t) /\ BothAcked(t)
    /\ run[t].emitted = <<<<" ">>, <<"a">>>>
    /\ req[t].chat_id = Upper(Chat0)
    /\ Cardinality(TurnRows(t)) = 2

\* C2: a turn whose stream completed with an empty or blank text attempted no
\* message insert and left no message; its caller got the message events and
\* nothing else: no metadata event, no error event, no exception.
C2_BlankTurnNotSaved ==
  \A t \in Tasks :
    (StreamCompleted(t) /\ ~NonBlank(Concat(run[t].emitted))) =>
      /\ MessageInserts(t) = {}
      /\ TurnRows(t) = {}
      /\ EventsOfKind(t, "message") = 1..Len(events[t])
      /\ Len(events[t]) = Len(run[t].emitted)
      /\ fault[t] = ""
      /\ pc[t] = "done"

C2_Witness ==
  \E t \in Tasks : StreamCompleted(t) /\ run[t].emitted = <<<<" ">>, <<" ">>>> /\ pc[t] = "done"

\* C3: the message events delivered in a turn are the fragments chat_streaming
\* yielded, in their order, each once; the assistant message the turn saved
\* holds their concatenation; a metadata event comes after every message event.
C3_FragmentsInOrder ==
  \A t \in Tasks :
    /\ Len(run[t].emitted) = Cardinality(EventsOfKind(t, "message"))
    /\ \A i \in 1..Len(run[t].emitted) :
         events[t][i].event = "message" /\ events[t][i].data = run[t].emitted[i]
    /\ \A a \in RowsOfRole(TurnRows(t), "assistant") : a.content = Concat(run[t].emitted)
    /\ \A i \in EventsOfKind(t, "metadata") :
         i = Len(events[t]) /\ \A j \in EventsOfKind(t, "message") : j < i

C3_Witness ==
  \E t \in Tasks :
    /\ run[t].emitted = <<<<"a">>, <<" ">>>>
    /\ EventsOfKind(t, "metadata") # {}
    /\ RowsOfRole(TurnRows(t), "assistant") # {}

C5_AgentErrorSurfaced ==
  \A t \in Tasks :
    (run[t].raised /\ pc[t] = "done") =>
      /\ LastEvent(t).event = "error"
      /\ Len(events[t]) = Len(run[t].emitted)
      /\ TurnRows(t) = {}

\* a request that names a user or a chat by a text that is no UUID
MalformedRequest(r) ==
  CASE r.endpoint = "/chat/stream" ->
         UUIDParse(r.user_id) = Invalid \/ (r.chat_id # None /\ UUIDParse(r.chat_id) = Invalid)
    [] r.endpoint = "/chat/all" -> UUIDParse(r.user_id) = Invalid
    [] r.endpoint = "/chat/messages" -> UUIDParse(r.chat_id) = Invalid
    [] OTHER -> FALSE

\* the store calls of task t that write
Writes(t) == {i \in 1..Len(ops[t]) : ops[t][i].op \in {"insert_chat", "insert_user", "insert_assistant"}}

\* C6: on each of the three endpoints, a request with a malformed user or chat
\* id (the empty text included) is answered with a 4xx status, writes nothing
\* to the store, does not call the agent and delivers no message event.
C6_MalformedIdRejected ==
  \A t \in Tasks :
    (pc[t] # "idle" /\ agent_ready /\ history_ready /\ MalformedRequest(req[t])) =>
      /\ status[t] \in 400..499
      /\ Writes(t) = {}
      /\ ~run[t].invoked
      /\ EventsOfKind(t, "message") = {}

\* C7: a call of get_or_create_chat that was given a chat id creates no chat,
\* and returns only the id it was given, of a chat the store holds.
C7_GivenChatIdNeverCreates ==
  \A t \in Tasks :
    (req[t].endpoint = "/chat/stream" /\ req[t].chat_id # None) =>
      /\ \A i \in 1..Len(ops[t]) : ops[t][i].op # "insert_chat"
      /\ loc[t].chat_id # None =>
           /\ loc[t].chat_id = req[t].chat_id
           /\ \E c \in chats : UUIDParse(c.chat_id) = UUIDParse(req[t].chat_id)

\* task t's generator takes its first step, in which it calls get_or_create_chat
Resolves(t) == pc[t] = "start" /\ pc'[t] # "start"

\* C8: a call of get_or_create_chat with a valid user id and no chat id that
\* returns, returns an id no chat of the store had and no earlier call returned;
\* the store then holds exactly one more chat, with that id and that user, and
\* the chats it held are unchanged.
C8_NewChatIsFresh ==
  [][\A t \in Tasks :
       (Resolves(t) /\ req[t].chat_id = None /\ loc'[t].chat_id # None) =>
         /\ \A c \in chats : UUIDParse(c.chat_id) # UUIDParse(loc'[t].chat_id)
         /\ \A u \in Tasks \ {t} : loc[u].chat_id # loc'[t].chat_id
         /\ chats \subseteq chats'
         /\ Cardinality(chats' \ chats) = 1
         /\ \A c \in chats' \ chats :
              /\ c.chat_id = loc'[t].chat_id
              /\ UUIDParse(c.user_id) = UUIDParse(req[t].user_id)
         /\ msgs' = msgs]_vars

C8_Witness ==
  /\ \A t \in Tasks : req[t].chat_id = None /\ loc[t].chat_id # None
  /\ Cardinality(chats) = Cardinality(InitChats) + Cardinality(Tasks)

\* C9: a call of get_or_create_chat with a valid user id and the id of a chat
\* the store holds, which the store answers, returns that id and leaves the
\* chats and the messages as they were, however often it is repeated.
C9_ExistingChatIdempotent ==
  [][\A t \in Tasks :
       (/\ Resolves(t)
        /\ UUIDParse(req[t].user_id) # Invalid
        /\ \E c \in chats : UUIDParse(c.chat_id) = UUIDParse(req[t].chat_id)
        /\ ops'[t][1].ack) =>
         /\ loc'[t].chat_id = req[t].chat_id
         /\ ops'[t][1].op = "select_chat"
         /\ chats' = chats
         /\ msgs' = msgs]_vars

C9_Witness ==
  \A t \in Tasks : req[t].chat_id = Upper(Chat0) /\ loc[t].chat_id = Upper(Chat0)

\* the sequences of min(N, limit) rows of a chat with N rows that hold its
\* newest rows, oldest first
HistoryWindows(chat_id, limit) ==
  LET rows == {m \in msgs : UUIDParse(m.chat_id) = UUIDParse(chat_id)}
      k == IF Cardinality(rows) < limit THEN Cardinality(rows) ELSE limit
  IN {q \in [1..k -> rows] :
        /\ \A i, j \in 1..k : i < j => q[i] # q[j] /\ q[i].created <= q[j].created
        /\ \A m \in rows \ {q[i] : i \in 1..k} : \A i \in 1..k : m.created <= q[i].created}
RoleAndContent(q) == [i \in 1..Len(q) |-> [role |-> q[i].role, content |-> q[i].content]]

\* C10: get_chat_history on a chat with N messages and a limit L returns
\* min(N, L) messages, the newest ones, oldest first; and the history the agent
\* is called with is such a sequence.
C10_HistoryWindow ==
  /\ (hist.called /\ hist.err = "") =>
       \E q \in HistoryWindows(hist.chat_id, hist.limit) : hist.messages = RoleAndContent(q)
  /\ \A t \in Tasks :
       run[t].invoked =>
         \E q \in HistoryWindows(loc[t].chat_id, CHAT_HISTORY_LIMIT) :
           run[t].chat_history = RoleAndContent(q)

C10_Witness ==
  /\ hist.called /\ hist.limit = 2 /\ Len(hist.messages) = 2
  /\ \E a, b, c \in msgs :
       /\ a.created < b.created /\ b.created < c.created
       /\ {UUIDParse(a.chat_id), UUIDParse(b.chat_id), UUIDParse(c.chat_id)} = {UUIDParse(hist.chat_id)}
       /\ hist.messages = RoleAndContent(<<b, c>>)

\* the chat rows task t's call of get_or_create_chat inserted
CreatedChats(t) == {c \in chats : UUIDParse(c.chat_id) = Uuid4(t, 0)}

\* C11: a chat created from a first message of more than 100 characters has as
\* title the first 100 characters and "..." (103 characters); a chat created
\* from a first message of 1 to 100 characters has the message as title.
C11_TitleFromFirstMessage ==
  \A t \in Tasks :
    (req[t].chat_id = None /\ req[t].message # <<>>) =>
      \A c \in CreatedChats(t) :
        /\ ~c.title.none
        /\ IF Len(req[t].message) > 100
           THEN /\ Len(c.title.text) = 103
                /\ c.title.text = SubSeq(req[t].message, 1, 100) \o <<".", ".", ".">>
           ELSE c.title.text = req[t].message

\* the positions in task t's store calls of the inserts of one kind
InsertsOf(t, name) == {i \in 1..Len(ops[t]) : ops[t][i].op = name}

\* task t's turn called save_conversation and the call is over
Saved(t) == pc[t] = "done" /\ InsertsOf(t, "insert_user") # {}

\* C12: save_conversation issues the user insert before the assistant insert;
\* when the user insert is not acknowledged it raises RuntimeError
\* ("Failed to save user message") without issuing the assistant insert, and
\* nothing is written.
C12_UserInsertFirst ==
  \A t \in Tasks :
    /\ \A i \in InsertsOf(t, "insert_assistant") :
         i - 1 \in InsertsOf(t, "insert_user") /\ ops[t][i - 1].ack
    /\ (Saved(t) /\ ~Acked(t, "insert_user")) =>
         /\ InsertsOf(t, "insert_assistant") = {}
         /\ TurnRows(t) = {}
         /\ LastEvent(t).event = "error"
    /\ loc[t].user_message_id # None =>
         \A insA \in InsertOutcomes :
           LET r == save_conversation(loc[t].chat_id, req[t].message, <<"a">>,
                                      loc[t].user_message_id, loc[t].assistant_message_id,
                                      loc[t].created_user, loc[t].created_assistant, "noack", insA)
           IN /\ r.err = "RuntimeError" /\ r.msg = "Failed to save user message"
              /\ r.calls = <<Op("insert_user", "noack")>>
              /\ r.table = msgs

C12_Witness ==
  \E t \in Tasks :
    /\ Saved(t) /\ ~Acked(t, "insert_user")
    /\ ops[t][Len(ops[t])].op = "insert_user"
    /\ LastEvent(t).event = "error"
    /\ \E u \in Tasks \ {t} : Saved(u) /\ BothAcked(u)

\* the events that end a stream
Terminal(e) == e.event \in {"metadata", "error"}

\* C13: the events delivered for a turn are message events followed by at most
\* one terminal event, a metadata event or an error event; nothing follows a
\* terminal event; a metadata event is delivered only when the store
\* acknowledged both message inserts of the turn.
C13_EventShape ==
  \A t \in Tasks :
    /\ \A i \in 1..Len(events[t]) :
         /\ events[t][i].event \in {"message", "metadata", "error"}
         /\ Terminal(events[t][i]) => i = Len(events[t])
    /\ EventsOfKind(t, "metadata") # {} => BothAcked(t)
    /\ (events[t] # <<>> /\ Terminal(LastEvent(t))) => pc[t] = "done"

C13_Witness ==
  /\ \E t \in Tasks :
       Len(events[t]) = 3 /\ LastEvent(t).event = "metadata" /\ BothAcked(t)
  /\ \E t \in Tasks :
       Len(events[t]) = 3 /\ LastEvent(t).event = "error" /\ ~BothAcked(t)

\* a dependency the endpoint of request r needs was not set at startup
Missing(r) ==
  IF r.endpoint = "/chat/stream" THEN ~agent_ready \/ ~history_ready ELSE ~history_ready

\* C14: /chat/stream answers 503 when the agent or the history manager is not
\* set, /chat/all and /chat/messages when the history manager is not set; such
\* a request makes no store call, does not call the agent and delivers nothing.
\* No other request is answered 503.
C14_NotReady503 ==
  /\ ~history_ready => chats = InitChats /\ msgs = {}
  /\ \A t \in Tasks :
       pc[t] # "idle" =>
         /\ status[t] = 503 <=> Missing(req[t])
         /\ Missing(req[t]) =>
              /\ pc[t] = "done"
              /\ ops[t] = <<>>
              /\ ~run[t].invoked
              /\ events[t] = <<>>
              /\ response[t] = <<>>
              /\ loc[t] = NoLocals

C14_Witness ==
  /\ ~agent_ready /\ history_ready
  /\ req[1].endpoint = "/chat/stream" /\ status[1] = 503
  /\ req[2].endpoint = "/chat/all" /\ status[2] = 200 /\ ops[2] # <<>>

\* the per-hole data of a row cannot be read as numbers
Unparseable(value) == ~Falsy(value) /\ \E i \in 1..Len(value) : value[i] = "x"

\* C15: every call of a tool's _execute returns a text and raises nothing: when
\* the backend query fails, when it returns no row and when a per-hole column
\* does not parse, the result is the tool's message for that case.
C15_ToolsReturnText ==
  tool.called =>
    /\ tool.raised = ""
    /\ tool.text \in STRING
    /\ tool.name = "search_scorecards" =>
         /\ tool.input.raised # "" => tool.text = ScorecardFailure
         /\ (tool.input.raised = "" /\ tool.input.rows = <<>>) =>
              tool.text = "No scorecard information was found for that course."
         /\ (tool.input.rows # <<>> /\ Unparseable(tool.input.rows[1].men_par_hole)) =>
              tool.text = ScorecardFailure
    /\ tool.name = "search_tee_details" =>
         /\ tool.input.raised # "" => tool.text = TeeFailure
         /\ (tool.input.raised = "" /\ tool.input.rows = <<>>) =>
              tool.text = "No tee details were found for that course."
         /\ (\E i \in 1..Len(tool.input.rows) : Unparseable(tool.input.rows[i].ydshole)) =>
              tool.text = TeeFailure
    /\ tool.name \in {"search_golf_courses", "search_app_manual"} =>
         /\ tool.input.raised # "" => tool.text # ""
         /\ ~tool.input.present => tool.text # ""

C15_Witness ==
  /\ tool.called /\ tool.name = "search_scorecards"
  /\ tool.input.rows # <<>>
  /\ tool.input.rows[1].men_par_hole = <<"4", "x">>
  /\ tool.text = ScorecardFailure

\* task t's turn issued both inserts and the store acknowledged only the user's
AssistantInsertFailed(t) ==
  /\ Saved(t)
  /\ Acked(t, "insert_user")
  /\ InsertsOf(t, "insert_assistant") # {}
  /\ ~Acked(t, "insert_assistant")

\* C16: when the assistant insert of a turn is not acknowledged after the user
\* insert was, the user message stays in the store and no assistant message of
\* the turn is stored; every fragment was delivered before, no metadata event
\* is delivered, the stream ends with an error event and no exception leaves
\* the request.
C16_OrphanedUserMessage ==
  \A t \in Tasks :
    AssistantInsertFailed(t) =>
      /\ Cardinality(TurnRows(t)) = 1
      /\ \A m \in TurnRows(t) :
           /\ m.role = "user"
           /\ UUIDParse(m.history_id) = UUIDParse(loc[t].user_message_id)
           /\ m.content = req[t].message
      /\ Len(events[t]) = Len(run[t].emitted) + 1
      /\ \A i \in 1..Len(run[t].emitted) : events[t][i] = MessageEvent(run[t].emitted[i])
      /\ EventsOfKind(t, "metadata") = {}
      /\ LastEvent(t).event = "error"
      /\ fault[t] = ""

C16_Witness ==
  \E t \in Tasks :
    /\ AssistantInsertFailed(t)
    /\ Len(run[t].emitted) = 2
    /\ Cardinality(TurnRows(t)) = 1

\* C17: a store round trip is a point where the request task is suspended and
\* other requests run: the task's step ends when it issues a store call, so no
\* step of a task makes more than one store call (the history load is not made
\* in the step that resolved the chat, the assistant insert not in the step
\* that made the user insert).
C17_StoreCallsSuspend ==
  [][\A t \in Tasks : Len(ops'[t]) <= Len(ops[t]) + 1]_vars

\* the message ids a turn drew
TurnIds(t) ==
  {UUIDParse(loc[t].user_message_id), UUIDParse(loc[t].assistant_message_id)} \ {Invalid}

\* the data of the message events delivered to task t's caller, in order
MessageData(t) ==
  LET msgEvents == SelectSeq(events[t], LAMBDA e : e.event = "message")
  IN [i \in 1..Len(msgEvents) |-> msgEvents[i].data]

\* C18: whatever the interleaving of the turns, a caller is delivered the
\* fragments of its own agent stream and no others, the parts a turn has
\* accumulated and the assistant content it saves are its own fragments, and
\* the message ids of different turns are distinct.
C18_TurnsIsolated ==
  /\ \A t \in Tasks :
       /\ MessageData(t) = run[t].emitted
       /\ loc[t].assistant_response_parts = run[t].emitted
       /\ \A m \in msgs :
            UUIDParse(m.history_id) = UUIDParse(loc[t].assistant_message_id) =>
              m.content = Concat(run[t].emitted)
       /\ run[t].invoked => Cardinality(TurnIds(t)) = 2
  /\ \A t, u \in Tasks : t # u => TurnIds(t) \cap TurnIds(u) = {}
  /\ \A m, n \in msgs : UUIDParse(m.history_id) = UUIDParse(n.history_id) => m = n

C18_Witness ==
  /\ \A t \in Tasks : req[t].chat_id = Upper(Chat0) /\ BothAcked(t)
  /\ run[1].emitted = <<<<"a">>, <<" ">>>>
  /\ run[2].emitted = <<<<" ">>, <<"a">>>>
  /\ Cardinality(msgs) = 4

\* the role the closed set gives a stored role: itself when it is one of the
\* three, compared without regard to case, and user for any other value
ClosedRole(stored) ==
  CASE stored \in {"user", "User"} -> "user"
    [] stored \in {"assistant", "ASSISTANT"} -> "assistant"
    [] stored = "system" -> "system"
    [] OTHER -> "user"

\* C19: a history load succeeds whatever the stored roles are, and every
\* message it returns has the role user, assistant or system: the stored role
\* when it is one of the three in any case, user for any other value, a missing
\* or null one included.
C19_RolesClosed ==
  (hist.called /\ UUIDParse(hist.chat_id) # Invalid) =>
    /\ hist.err = ""
    /\ \E q \in HistoryWindows(hist.chat_id, hist.limit) :
         hist.messages = [i \in 1..Len(q) |-> [role |-> ClosedRole(q[i].role), content |-> q[i].content]]

\* rows u and a are the user message and the assistant message of task t's turn
PairOfTurn(u, a, t) ==
  /\ UUIDParse(u.history_id) = UUIDParse(loc[t].user_message_id)
  /\ UUIDParse(a.history_id) = UUIDParse(loc[t].assistant_message_id)

\* C20: in every state of the store, each assistant message has its user
\* message: a row of role user in the same chat, created exactly 1 ms earlier,
\* written by the same turn.  (A user message may be without its assistant
\* message.)
C20_AssistantHasPartner ==
  \A a \in RowsOfRole(msgs, "assistant") :
    \E u \in RowsOfRole(msgs, "user") :
      /\ UUIDParse(u.chat_id) = UUIDParse(a.chat_id)
      /\ u.created + 1 * UsPerMs = a.created
      /\ \E t \in Tasks : PairOfTurn(u, a, t)

C20_Witness ==
  /\ Cardinality(RowsOfRole(msgs, "assistant")) = 1
  /\ Cardinality(RowsOfRole(msgs, "user")) = 2
  /\ \E t \in Tasks : AssistantInsertFailed(t)
  /\ \A m, n \in msgs : UUIDParse(m.chat_id) = UUIDParse(n.chat_id)

\* two turns that both saved their two messages in the same chat
SavedInSameChat(t, u) ==
  /\ t # u
  /\ BothAcked(t) /\ BothAcked(u)
  /\ SameUuid(loc[t].chat_id, loc[u].chat_id)

\* in the listing q every assistant message comes right after the user message
\* of its own turn
PairsAdjacent(q) ==
  \A i \in 1..Len(q) :
    q[i].role = "assistant" =>
      i > 1 /\ \E t \in Tasks : PairOfTurn(q[i - 1], q[i], t)

\* C21: for two turns saved in the same chat, turns that ran concurrently
\* included, the four created values are pairwise distinct, no message of one
\* turn lies between the two messages of the other in the order of created, and
\* every listing of the chat's messages (ascending created) shows each
\* assistant message right after the user message of its turn.
C21_TurnsNotInterleaved ==
  \A t, u \in Tasks :
    SavedInSameChat(t, u) =>
      /\ \A m, n \in TurnRows(t) \cup TurnRows(u) : m # n => m.created # n.created
      /\ \A m \in TurnRows(u) :
           ~(loc[t].created_user * UsPerMs <= m.created
             /\ m.created <= loc[t].created_assistant * UsPerMs)
      /\ \A q \in SortedAsc(ChatRows(loc[t].chat_id)) : PairsAdjacent(q)

\* task t's turn was submitted without a chat id and its chat was created
CreatedItsChat(t) ==
  /\ req[t].endpoint = "/chat/stream"
  /\ req[t].chat_id = None
  /\ loc[t].chat_id # None

\* task t's turn ended otherwise than by saving its two messages: the agent's
\* run raised, the turn was cancelled, an insert was not acknowledged, or the
\* text was empty or blank
EndedWithoutSaving(t) ==
  \/ pc[t] = "done" /\ run[t].raised
  \/ pc[t] = "cancelled"
  \/ Saved(t) /\ ~BothAcked(t)
  \/ StreamCompleted(t) /\ ~NonBlank(Concat(run[t].emitted))

\* the events delivered to task t's caller that carry the chat id chat_id
EventsCarrying(t, chat_id) ==
  {i \in 1..Len(events[t]) : SameUuid(events[t][i].meta.chat_id, chat_id)}

\* C22: a turn submitted without a chat id has its chat in the store before the
\* agent is invoked and from then on; when the turn ends by an agent error, a
\* cancellation, an unacknowledged insert or an empty output, the chat it
\* created has no message and no event delivered carries the chat's id.
C22_NewChatLeftEmpty ==
  \A t \in Tasks :
    CreatedItsChat(t) =>
      /\ CreatedChats(t) # {}
      /\ \A c \in CreatedChats(t) : SameUuid(c.chat_id, loc[t].chat_id)
      /\ EndedWithoutSaving(t) =>
           /\ ChatRows(loc[t].chat_id) = {}
           /\ EventsCarrying(t, loc[t].chat_id) = {}

====
